---- MODULE Spec2Model ----
(***************************************************************************)
(* Target lifecycle, hit detection and statistics of the FPS trainer       *)
(* (src/target.py), driven as the frame loop of src/main.py drives it.     *)
(*                                                                         *)
(* Units.  Time is counted in ticks of 0.5 s, lengths in units of 0.1, so  *)
(* that every quantity of the program is an integer here:                  *)
(*   spawn_interval 1.0 s = 2 ticks, target_lifetime 2.5 s = 5 ticks,      *)
(*   target_radius 0.4 = 4 units, spawn box [-8,8]x[1,5]x[-15,-5] =        *)
(*   [-80,80]x[10,50]x[-150,-50].                                          *)
(* time.time() is the variable now; one call of a method reads one clock   *)
(* value (the microseconds a call takes are far below one tick).           *)
(***************************************************************************)
EXTENDS Integers, Sequences, FiniteSets, TLC

VARIABLES
    now,              \* time.time(), in ticks
    targets,          \* TargetManager.targets: sequence of Target records
    last_spawn_time,  \* TargetManager.last_spawn_time
    hits,             \* TargetManager.hits
    misses,           \* TargetManager.misses
    total_spawned,    \* TargetManager.total_spawned
    last,             \* the last call made: its name, arguments, return value
                      \* and the state it was made in
    camera            \* the Camera: its yaw and pitch, in degrees

vars == <<now, targets, last_spawn_time, hits, misses, total_spawned, last,
          camera>>

----------------------------------------------------------------------------
(* Bounds of the model *)

\* the clock reading at which the manager is constructed (time.time() is an
\* epoch time, far more than one spawn interval above last_spawn_time = 0)
Epoch == 2

\* the clock stops advancing this many ticks after Epoch
Horizon == 6

\* largest counter value the statistics specification draws
MaxCount == 9

MaxTime == Epoch + Horizon

----------------------------------------------------------------------------
(* Program constants (src/target.py, TargetManager.__init__) *)

max_targets == 3
spawn_interval == 2
target_lifetime == 5
target_radius == 4

\* get_random_spawn_position: the positions random.uniform may return, a
\* sample of the spawn box.  From <<0,20,0>> looking down -Z the ray passes
\* through the first two and is tangent to the third.
PosSet == { <<0, 20, -60>>, <<0, 20, -100>>, <<4, 20, -80>> }

\* camera.position at the moment of a shot (the camera flies freely)
OriginSet == { <<0, 20, 0>>,       \* in front of every target
               <<0, 20, -60>>,     \* the centre of a target
               <<0, 20, -62>>,     \* inside a target, past its centre
               <<0, 20, -150>> }   \* behind every target

\* camera.get_forward_vector() at the moment of a shot
DirSet == { <<0, 0, -1>>, <<0, 0, 1>>, <<1, 0, 0>>, <<1, 0, -20>> }

\* the shots fired at the manager's targets, <<origin, direction>>: through
\* two spawn positions and tangent to the third; away from every target;
\* from the centre of a spawn position; through the third position and the
\* first
ShotSet == { << <<0, 20, 0>>, <<0, 0, -1>> >>,
             << <<0, 20, 0>>, <<0, 0, 1>> >>,
             << <<0, 20, -60>>, <<0, 0, -1>> >>,
             << <<0, 20, 0>>, <<1, 0, -20>> >> }

----------------------------------------------------------------------------
(* Vector arithmetic and square root used by Target.check_hit *)

\* np.dot
Dot(u, v) == u[1] * v[1] + u[2] * v[2] + u[3] * v[3]

\* ray_origin - self.position
Sub(u, v) == <<u[1] - v[1], u[2] - v[2], u[3] - v[3]>>

RECURSIVE IsqrtBetween(_, _, _)
\* the s with lo <= s < hi and s*s <= n < (s+1)*(s+1), given lo*lo <= n < hi*hi
IsqrtBetween(n, lo, hi) ==
    IF hi - lo <= 1 THEN lo
    ELSE LET mid == (lo + hi) \div 2
         IN  IF mid * mid <= n THEN IsqrtBetween(n, mid, hi)
             ELSE IsqrtBetween(n, lo, mid)

\* floor(math.sqrt(n)) for n >= 0
Isqrt(n) == IsqrtBetween(n, 0, n + 1)

----------------------------------------------------------------------------
(* class Camera (src/camera.py): orientation.  Angles are whole degrees. *)

MIN_PITCH == -89
MAX_PITCH == 89

\* max and min of Python
Max(a, b) == IF a >= b THEN a ELSE b
Min(a, b) == IF a <= b THEN a ELSE b

\* _clamp_pitch that clamps at the top only
clamp_pitch_upper(pitch) == Min(MAX_PITCH, pitch)

\* Camera._clamp_pitch
clamp_pitch(pitch) == Max(MIN_PITCH, Min(MAX_PITCH, pitch))

\* Camera.__init__
Camera(yaw, pitch) == [yaw |-> yaw, pitch |-> clamp_pitch(pitch)]

RECURSIVE wrap_yaw(_)
\* rotate, lines 174-177: the two while loops
wrap_yaw(yaw) ==
    IF yaw > 360 THEN wrap_yaw(yaw - 360)
    ELSE IF yaw < 0 THEN wrap_yaw(yaw + 360)
    ELSE yaw

\* Camera.rotate
rotate(cam, yaw_delta, pitch_delta) ==
    [ yaw   |-> wrap_yaw(cam.yaw + yaw_delta),
      pitch |-> clamp_pitch(cam.pitch + pitch_delta) ]

\* Camera.set_rotation
set_rotation(cam, yaw, pitch) == [yaw |-> yaw, pitch |-> clamp_pitch(pitch)]

----------------------------------------------------------------------------
(* class Target *)

\* Target.__init__
Target(position, radius, lifetime, clock) ==
    [ position   |-> position,
      radius     |-> radius,
      lifetime   |-> lifetime,
      spawn_time |-> clock,
      is_active  |-> TRUE,
      is_hit     |-> FALSE ]

\* the comparison of Target.update, line 49, with > for >=
HasExpired_strict(elapsed, lifetime) == elapsed > lifetime

\* Target.update, line 49: elapsed >= self.lifetime
HasExpired(elapsed, lifetime) == elapsed >= lifetime

\* Target.update: the target after the call and the value returned
Target_update(t, clock) ==
    IF ~t.is_active
    THEN [t |-> t, ret |-> FALSE]
    ELSE LET elapsed == clock - t.spawn_time
         IN  IF HasExpired(elapsed, t.lifetime)
             THEN [t |-> [t EXCEPT !.is_active = FALSE], ret |-> FALSE]
             ELSE [t |-> t, ret |-> TRUE]

\* the quadratic of check_hit, lines 77-82
Quadratic(t, ray_origin, ray_direction) ==
    LET oc == Sub(ray_origin, t.position)
        a  == Dot(ray_direction, ray_direction)
        b  == 2 * Dot(oc, ray_direction)
        c  == Dot(oc, oc) - t.radius * t.radius
    IN  [a |-> a, b |-> b, c |-> c, discriminant |-> b * b - 4 * a * c]

\* check_hit with the front-of-ray test left out: any positive discriminant hits
Intersects_nofront(a, b, discriminant) == discriminant > 0

\* check_hit, lines 84-87: discriminant > 0 and
\* t = (-b - math.sqrt(discriminant)) / (2 * a) > 0.  a > 0, so t > 0 iff
\* -b > sqrt(discriminant); -b is an integer, so that is -b > floor(sqrt).
\* (In double precision the subtraction is exact enough to keep the sign for
\* every |b| below 2^26.)
Intersects(a, b, discriminant) ==
    /\ discriminant > 0
    /\ -b - Isqrt(discriminant) > 0

\* Target.check_hit: the target after the call and the value returned
Target_check_hit(t, ray_origin, ray_direction) ==
    IF ~t.is_active
    THEN [t |-> t, ret |-> FALSE]
    ELSE LET q == Quadratic(t, ray_origin, ray_direction)
         IN  IF Intersects(q.a, q.b, q.discriminant)
             THEN [t |-> [t EXCEPT !.is_hit = TRUE, !.is_active = FALSE],
                   ret |-> TRUE]
             ELSE [t |-> t, ret |-> FALSE]

----------------------------------------------------------------------------
(* class TargetManager.  A manager value m is the record of its fields. *)

\* the manager made of the current values of the variables
Mgr ==
    [ targets         |-> targets,
      last_spawn_time |-> last_spawn_time,
      hits            |-> hits,
      misses          |-> misses,
      total_spawned   |-> total_spawned ]

\* TargetManager.__init__
TargetManager_init ==
    [ targets         |-> << >>,
      last_spawn_time |-> 0,
      hits            |-> 0,
      misses          |-> 0,
      total_spawned   |-> 0 ]

\* TargetManager.spawn_target; position is what get_random_spawn_position drew
spawn_target(m, position, clock) ==
    [m EXCEPT
        !.targets = Append(@, Target(position, target_radius, target_lifetime, clock)),
        !.total_spawned = @ + 1,
        !.last_spawn_time = clock]

RECURSIVE spawn_targets(_, _, _, _)
\* n calls of spawn_target in a row
spawn_targets(m, n, position, clock) ==
    IF n <= 0 THEN m
    ELSE spawn_targets(spawn_target(m, position, clock), n - 1, position, clock)

\* line 149 without "and not t.is_hit": every inactive target
expired_targets_inactive(ts) == SelectSeq(ts, LAMBDA t : ~t.is_active)

\* update, line 149: the targets that are neither active nor hit
expired_targets(ts) == SelectSeq(ts, LAMBDA t : ~t.is_active /\ ~t.is_hit)

\* line 153 as a filter on the flag, without the call of Target.update
updated_targets_flag(ts, clock) == SelectSeq(ts, LAMBDA t : t.is_active)

\* update, line 153: [t for t in self.targets if t.update(delta_time)];
\* Target.update changes no target for which it returns True
updated_targets(ts, clock) ==
    SelectSeq(ts, LAMBDA t : Target_update(t, clock).ret)

\* the spawn test of update with or for and
spawn_count_or(active_count, time_since_spawn) ==
    IF active_count < max_targets \/ time_since_spawn >= spawn_interval
    THEN 1 ELSE 0

\* the spawn test of update as a catch-up loop: one spawn for every free slot
\* once the interval has elapsed
spawn_count_burst(active_count, time_since_spawn) ==
    IF active_count < max_targets /\ time_since_spawn >= spawn_interval
    THEN max_targets - active_count ELSE 0

\* update, lines 159-160: how many times spawn_target is called
spawn_count(active_count, time_since_spawn) ==
    IF active_count < max_targets /\ time_since_spawn >= spawn_interval
    THEN 1 ELSE 0

\* update that counts the targets before it removes the inactive ones
TargetManager_update_countfirst(m, clock, position) ==
    LET current_time     == clock
        expired          == expired_targets(m.targets)
        m1               == [m EXCEPT !.misses = @ + Len(expired)]
        active_count     == Len(m1.targets)
        m2               == [m1 EXCEPT !.targets = updated_targets(@, clock)]
        time_since_spawn == current_time - m2.last_spawn_time
    IN  spawn_targets(m2, spawn_count(active_count, time_since_spawn),
                      position, clock)

\* TargetManager.update; position is what a spawn would draw
TargetManager_update(m, clock, position) ==
    LET current_time     == clock
        expired          == expired_targets(m.targets)
        m1               == [m EXCEPT !.misses = @ + Len(expired)]
        m2               == [m1 EXCEPT !.targets = updated_targets(@, clock)]
        active_count     == Len(m2.targets)
        time_since_spawn == current_time - m2.last_spawn_time
    IN  spawn_targets(m2, spawn_count(active_count, time_since_spawn),
                      position, clock)

RECURSIVE scan_shot_all(_, _, _, _)
\* the loop of check_shot without its return: every target the ray hits is
\* deactivated
scan_shot_all(ts, i, ray_origin, ray_direction) ==
    IF i > Len(ts) THEN [targets |-> ts, ret |-> FALSE]
    ELSE LET r    == Target_check_hit(ts[i], ray_origin, ray_direction)
             rest == scan_shot_all([ts EXCEPT ![i] = r.t], i + 1,
                                   ray_origin, ray_direction)
         IN  [targets |-> rest.targets, ret |-> r.ret \/ rest.ret]

RECURSIVE scan_shot(_, _, _, _)
\* the loop of check_shot from index i on: the targets after it and whether
\* a target was hit
scan_shot(ts, i, ray_origin, ray_direction) ==
    IF i > Len(ts) THEN [targets |-> ts, ret |-> FALSE]
    ELSE LET r == Target_check_hit(ts[i], ray_origin, ray_direction)
         IN  IF r.ret
             THEN [targets |-> [ts EXCEPT ![i] = r.t], ret |-> TRUE]
             ELSE scan_shot(ts, i + 1, ray_origin, ray_direction)

\* check_shot that also books a shot that hit nothing as a miss
check_shot_whiff(m, ray_origin, ray_direction) ==
    LET s == scan_shot(m.targets, 1, ray_origin, ray_direction)
    IN  IF s.ret
        THEN [m |-> [m EXCEPT !.targets = s.targets, !.hits = @ + 1], ret |-> TRUE]
        ELSE [m |-> [m EXCEPT !.misses = @ + 1], ret |-> FALSE]

\* check_shot that books a hit without the target being deactivated
check_shot_keep(m, ray_origin, ray_direction) ==
    LET s == scan_shot(m.targets, 1, ray_origin, ray_direction)
    IN  IF s.ret
        THEN [m |-> [m EXCEPT !.hits = @ + 1], ret |-> TRUE]
        ELSE [m |-> m, ret |-> FALSE]

\* TargetManager.check_shot: the manager after the call and the value returned
check_shot(m, ray_origin, ray_direction) ==
    LET s == scan_shot(m.targets, 1, ray_origin, ray_direction)
    IN  IF s.ret
        THEN [m |-> [m EXCEPT !.targets = s.targets, !.hits = @ + 1], ret |-> TRUE]
        ELSE [m |-> m, ret |-> FALSE]

\* TargetManager.get_targets
get_targets(m) == SelectSeq(m.targets, LAMBDA t : t.is_active)

\* get_accuracy without the test for total_shots == 0
get_accuracy_noguard(m) ==
    [num |-> m.hits * 100, den |-> m.hits + m.misses]

\* TargetManager.get_accuracy: the float returned, as the fraction num/den
\* (0.0 is 0/1; (hits / total_shots) * 100 is (hits*100)/total_shots)
get_accuracy(m) ==
    LET total_shots == m.hits + m.misses
    IN  IF total_shots = 0
        THEN [num |-> 0, den |-> 1]
        ELSE [num |-> m.hits * 100, den |-> total_shots]

\* reset_stats that forgets total_spawned
reset_stats_partial(m) == [m EXCEPT !.hits = 0, !.misses = 0]

\* TargetManager.reset_stats
reset_stats(m) == [m EXCEPT !.hits = 0, !.misses = 0, !.total_spawned = 0]

----------------------------------------------------------------------------
(* The calls the program makes *)

\* what a call finds: the clock and the manager's fields
Snapshot == [now |-> now, m |-> Mgr]

\* the record of a call
Call(op, ret, ray_origin, ray_direction) ==
    [ op |-> op, ret |-> ret, ray_origin |-> ray_origin,
      ray_direction |-> ray_direction, pre |-> Snapshot ]

NoVec == <<0, 0, 0>>

\* no call since the clock last advanced
NoCall ==
    [ op |-> "none", ret |-> FALSE, ray_origin |-> NoVec,
      ray_direction |-> NoVec, pre |-> [now |-> 0, m |-> TargetManager_init] ]

\* assign the fields of manager m to the variables
SetMgr(m) ==
    /\ targets' = m.targets
    /\ last_spawn_time' = m.last_spawn_time
    /\ hits' = m.hits
    /\ misses' = m.misses
    /\ total_spawned' = m.total_spawned

\* main(): target_manager = TargetManager() at clock reading Epoch
Init ==
    /\ now = Epoch
    /\ targets = TargetManager_init.targets
    /\ last_spawn_time = TargetManager_init.last_spawn_time
    /\ hits = TargetManager_init.hits
    /\ misses = TargetManager_init.misses
    /\ total_spawned = TargetManager_init.total_spawned
    /\ last = NoCall
    /\ camera = Camera(0, 0)

\* the clock advances between two calls
Tick ==
    /\ now < MaxTime
    /\ now' = now + 1
    /\ last' = NoCall
    /\ UNCHANGED <<targets, last_spawn_time, hits, misses, total_spawned, camera>>

\* main.update: target_manager.update(delta_time)
Update ==
    \E position \in PosSet :
        /\ SetMgr(TargetManager_update(Mgr, now, position))
        /\ last' = Call("update", FALSE, NoVec, NoVec)
        /\ UNCHANGED <<now, camera>>

\* handle_input, MOUSEBUTTONDOWN: target_manager.check_shot(origin, direction)
CheckShot ==
    \E shot \in ShotSet :
        LET r == check_shot(Mgr, shot[1], shot[2])
        IN  /\ SetMgr(r.m)
            /\ last' = Call("check_shot", r.ret, shot[1], shot[2])
            /\ UNCHANGED <<now, camera>>

\* handle_input, K_r: target_manager.reset_stats()
ResetStats ==
    /\ SetMgr(reset_stats(Mgr))
    /\ last' = Call("reset_stats", FALSE, NoVec, NoVec)
    /\ UNCHANGED <<now, camera>>

\* One frame of the game loop handles any number of input events (shots,
\* resets) and then calls update; the clock advances all along.  Every
\* sequence of calls is therefore a sequence of frames.
Next == Tick \/ Update \/ CheckShot \/ ResetStats

Spec == Init /\ [][Next]_vars

\* The game loop keeps running: the clock keeps advancing (up to MaxTime)
\* and every frame calls update.  Shots are fired at any time; the counters
\* are not reset (reset_stats touches neither the list nor the clock).
NextLive == Tick \/ Update \/ CheckShot

SpecLive == Init /\ [][NextLive]_vars /\ WF_vars(Tick) /\ WF_vars(Update)

----------------------------------------------------------------------------
(* A Target on its own: Target(...) constructed at clock reading Epoch and  *)
(* held in targets[1]; its update and check_hit are called directly.        *)

\* radius: the default 0.3 of Target.__init__, the manager's 0.4, and 0.5
RadiusSet == { 3, target_radius, 5 }

\* lifetime: 2.0 s, the manager's 2.5 s, the default 3.0 s of Target.__init__
LifetimeSet == { 4, target_lifetime, 6 }

InitTarget ==
    /\ now = Epoch
    /\ \E position \in PosSet, radius \in RadiusSet, lifetime \in LifetimeSet :
           targets = << Target(position, radius, lifetime, Epoch) >>
    /\ last_spawn_time = TargetManager_init.last_spawn_time
    /\ hits = TargetManager_init.hits
    /\ misses = TargetManager_init.misses
    /\ total_spawned = TargetManager_init.total_spawned
    /\ last = NoCall
    /\ camera = Camera(0, 0)

\* targets[1].update(delta_time)
TargetUpdate ==
    LET r == Target_update(targets[1], now)
    IN  /\ targets' = << r.t >>
        /\ last' = Call("Target.update", r.ret, NoVec, NoVec)
        /\ UNCHANGED <<now, last_spawn_time, hits, misses, total_spawned, camera>>

\* targets[1].check_hit(ray_origin, ray_direction)
TargetCheckHit ==
    \E ray_origin \in OriginSet, ray_direction \in DirSet :
        LET r == Target_check_hit(targets[1], ray_origin, ray_direction)
        IN  /\ targets' = << r.t >>
            /\ last' = Call("Target.check_hit", r.ret, ray_origin, ray_direction)
            /\ UNCHANGED <<now, last_spawn_time, hits, misses, total_spawned, camera>>

NextTarget == Tick \/ TargetUpdate \/ TargetCheckHit

SpecTarget == InitTarget /\ [][NextTarget]_vars

----------------------------------------------------------------------------
(* The statistics on their own: a manager whose counters hold any values    *)
(* up to MaxCount, on which get_accuracy and reset_stats are called.        *)

InitStats ==
    /\ now = Epoch
    /\ targets = TargetManager_init.targets
    /\ last_spawn_time = TargetManager_init.last_spawn_time
    /\ hits \in 0 .. MaxCount
    /\ misses \in 0 .. MaxCount
    /\ total_spawned = hits + misses
    /\ last = NoCall
    /\ camera = Camera(0, 0)

\* draw: target_manager.get_accuracy()
GetAccuracy ==
    /\ last' = Call("get_accuracy", get_accuracy(Mgr), NoVec, NoVec)
    /\ UNCHANGED <<now, targets, last_spawn_time, hits, misses, total_spawned,
                   camera>>

NextStats == GetAccuracy \/ ResetStats

SpecStats == InitStats /\ [][NextStats]_vars

----------------------------------------------------------------------------
(* The Camera on its own: constructed with any yaw and pitch, then rotated  *)
(* and set.                                                                 *)

\* pitch values given to Camera(...) and set_rotation, in and far out of range
PitchSet == { -1000, -90, -89, 0, 45, 89, 90, 1000 }

\* pitch_delta of rotate: handle_input passes -dy * 0.1 with |dy| <= 100;
\* other callers pass anything
PitchDeltaSet == { -500, -100, -30, 30, 100, 500 }

\* yaw values and deltas
YawSet == { -400, 0, 90, 400 }

\* the record of a Camera call
CameraCall(op, yaw_arg, pitch_arg) ==
    [ op |-> op, yaw_arg |-> yaw_arg, pitch_arg |-> pitch_arg, pre |-> camera ]

InitCamera ==
    /\ now = Epoch
    /\ targets = TargetManager_init.targets
    /\ last_spawn_time = TargetManager_init.last_spawn_time
    /\ hits = TargetManager_init.hits
    /\ misses = TargetManager_init.misses
    /\ total_spawned = TargetManager_init.total_spawned
    /\ \E yaw \in YawSet, pitch \in PitchSet :
           /\ camera = Camera(yaw, pitch)
           /\ last = [ op |-> "Camera", yaw_arg |-> yaw, pitch_arg |-> pitch,
                       pre |-> Camera(yaw, pitch) ]

\* camera.rotate(yaw_delta, pitch_delta)
Rotate ==
    \E yaw_delta \in YawSet, pitch_delta \in PitchDeltaSet :
        /\ camera' = rotate(camera, yaw_delta, pitch_delta)
        /\ last' = CameraCall("rotate", yaw_delta, pitch_delta)
        /\ UNCHANGED <<now, targets, last_spawn_time, hits, misses, total_spawned>>

\* camera.set_rotation(yaw, pitch)
SetRotation ==
    \E yaw \in YawSet, pitch \in PitchSet :
        /\ camera' = set_rotation(camera, yaw, pitch)
        /\ last' = CameraCall("set_rotation", yaw, pitch)
        /\ UNCHANGED <<now, targets, last_spawn_time, hits, misses, total_spawned>>

NextCamera == Rotate \/ SetRotation

SpecCamera == InitCamera /\ [][NextCamera]_vars

----------------------------------------------------------------------------
(* Properties *)

\* the manager the last call was made on, and the clock it read
PreM == last.pre.m
PreNow == last.pre.now

\* the indices of the targets of ts that are live and unhit with their
\* lifetime over at clock reading clock
DueSet(ts, clock) ==
    { i \in 1 .. Len(ts) :
        /\ ts[i].is_active
        /\ ~ts[i].is_hit
        /\ clock - ts[i].spawn_time >= ts[i].lifetime }

\* the indices of the targets of ts that check_hit reports as hit by the ray
HitSet(ts, ray_origin, ray_direction) ==
    { i \in 1 .. Len(ts) : Target_check_hit(ts[i], ray_origin, ray_direction).ret }

\* the least element of a non-empty set of numbers
Least(S) == CHOOSE i \in S : \A j \in S : i <= j

\* the set of the elements of a sequence
Range(seq) == { seq[i] : i \in 1 .. Len(seq) }

\* the larger root (-b + sqrt(discriminant)) / (2a) is >= 0, for a > 0 and
\* discriminant >= 0: sqrt(discriminant) >= b
SomeRootNonNegative(q) == q.b <= 0 \/ q.b * q.b <= q.discriminant

\* both roots are < 0, for a > 0 and discriminant >= 0: sqrt(discriminant) < b
BothRootsNegative(q) == q.b > 0 /\ q.b * q.b > q.discriminant

\* the quadratic of the last check_hit call
LastQ == Quadratic(PreM.targets[1], last.ray_origin, last.ray_direction)

\* C1: an update made at or after spawn_time + lifetime of a live unhit
\* target removes the target and adds exactly one to misses for it: after
\* update, misses has grown by the number of such targets, and none of them
\* is left in the list.
C1_ExpiredCountedOnce ==
    last.op = "update" =>
        /\ misses = PreM.misses + Cardinality(DueSet(PreM.targets, PreNow))
        /\ \A i \in DueSet(PreM.targets, PreNow) :
               PreM.targets[i] \notin Range(targets)

\* C2: the manager never holds more than max_targets targets, live or not.
C2_AtMostMaxTargets ==
    /\ Len(targets) <= max_targets
    /\ Len(get_targets(Mgr)) <= max_targets

\* C2 witness: update was called on a manager holding max_targets live
\* targets and the manager still holds max_targets.
C2_Witness ==
    /\ last.op = "update"
    /\ Len(get_targets(PreM)) = max_targets
    /\ Len(targets) = max_targets

\* C3: one update call adds 0 or 1 to total_spawned and at most one target
\* to the list.
C3_AtMostOneSpawn ==
    last.op = "update" =>
        /\ total_spawned - PreM.total_spawned \in {0, 1}
        /\ Len(targets) <= Len(PreM.targets) + 1

\* C3 witness: update found an empty list and at least three spawn
\* intervals elapsed since the last spawn, and spawned exactly one target.
C3_Witness ==
    /\ last.op = "update"
    /\ PreM.total_spawned > 0
    /\ PreNow - PreM.last_spawn_time >= 3 * spawn_interval
    /\ Len(updated_targets(PreM.targets, PreNow)) = 0
    /\ total_spawned = PreM.total_spawned + 1
    /\ Len(targets) = 1

\* C4: when check_hit reports a hit for some target of the list, check_shot
\* returns True, hits grows by one, the first such target is inactive and
\* no longer among get_targets(), which is one shorter; misses,
\* total_spawned and last_spawn_time are unchanged.
C4_HitBooked ==
    (last.op = "check_shot"
        /\ HitSet(PreM.targets, last.ray_origin, last.ray_direction) # {}) =>
        LET i == Least(HitSet(PreM.targets, last.ray_origin, last.ray_direction))
        IN  /\ last.ret = TRUE
            /\ hits = PreM.hits + 1
            /\ ~targets[i].is_active
            /\ targets[i].is_hit
            /\ targets[i] \notin Range(get_targets(Mgr))
            /\ PreM.targets[i] \in Range(get_targets(PreM))
            /\ Len(get_targets(Mgr)) = Len(get_targets(PreM)) - 1
            /\ Len(targets) = Len(PreM.targets)
            /\ misses = PreM.misses
            /\ total_spawned = PreM.total_spawned
            /\ last_spawn_time = PreM.last_spawn_time

\* C4 witness: a shot hit a target while another target stayed live.
C4_Witness ==
    /\ last.op = "check_shot"
    /\ last.ret = TRUE
    /\ hits = PreM.hits + 1
    /\ Len(get_targets(PreM)) = 2
    /\ Len(get_targets(Mgr)) = 1

\* C5: when check_hit reports a hit for no target of the list, check_shot
\* returns False and the manager is as it was: counters, last_spawn_time,
\* the list and every target's flags.
C5_WhiffChangesNothing ==
    (last.op = "check_shot"
        /\ HitSet(PreM.targets, last.ray_origin, last.ray_direction) = {}) =>
        /\ last.ret = FALSE
        /\ Mgr = PreM
        /\ now = PreNow

\* C5 witness: a shot was fired at a manager with live targets and hit none.
C5_Witness ==
    /\ last.op = "check_shot"
    /\ last.ret = FALSE
    /\ Len(get_targets(PreM)) >= 2
    /\ Mgr = PreM

\* C6: check_hit on an active target reports a hit whenever the
\* discriminant is >= 0 and some root is >= 0 (tangent rays, and rays that
\* start inside the sphere or at its centre, included).
C6_HitWheneverSomeRootNonNegative ==
    (last.op = "Target.check_hit"
        /\ PreM.targets[1].is_active
        /\ LastQ.discriminant >= 0
        /\ SomeRootNonNegative(LastQ)) =>
        last.ret = TRUE

\* C7: check_hit reports no hit, and leaves the target's flags alone, when
\* the discriminant is < 0 or both roots are < 0.
C7_NoHitBehindOrBeside ==
    (last.op = "Target.check_hit"
        /\ (LastQ.discriminant < 0
            \/ (LastQ.discriminant >= 0 /\ BothRootsNegative(LastQ)))) =>
        /\ last.ret = FALSE
        /\ targets[1] = PreM.targets[1]

\* C7 witness: check_hit was called on an active target whose sphere lies
\* wholly behind the ray origin, on the ray's line.
C7_Witness ==
    /\ last.op = "Target.check_hit"
    /\ PreM.targets[1].is_active
    /\ LastQ.discriminant > 0
    /\ BothRootsNegative(LastQ)
    /\ last.ret = FALSE
    /\ targets[1].is_active

\* C8: for a target never hit, update returns True at every clock reading
\* before spawn_time + lifetime and False at every reading from then on;
\* once the target is inactive, update returns False and changes nothing,
\* and update never sets is_hit.
C8_ExpiryAtLifetime ==
    last.op = "Target.update" =>
        LET t0 == PreM.targets[1]
            t1 == targets[1]
        IN  /\ ~t0.is_hit =>
                /\ now < t0.spawn_time + t0.lifetime =>
                       (last.ret = TRUE /\ t1 = t0 /\ t1.is_active)
                /\ now >= t0.spawn_time + t0.lifetime =>
                       (last.ret = FALSE /\ ~t1.is_active /\ ~t1.is_hit)
            /\ ~t0.is_active => (last.ret = FALSE /\ t1 = t0)
            /\ t1.is_hit = t0.is_hit
            /\ t1 = [t0 EXCEPT !.is_active = t1.is_active]

\* C8 witness: update, called at exactly spawn_time + lifetime on an active
\* target, made it inactive.
C8_Witness ==
    /\ last.op = "Target.update"
    /\ PreM.targets[1].is_active
    /\ now = targets[1].spawn_time + targets[1].lifetime
    /\ last.ret = FALSE
    /\ ~targets[1].is_active
    /\ ~targets[1].is_hit

\* C9: get_accuracy returns 0 when hits + misses = 0 and otherwise
\* hits / (hits + misses) * 100 (75 for 3 hits and 1 miss), always a number
\* in [0, 100], and changes no state.
C9_Accuracy ==
    last.op = "get_accuracy" =>
        LET r == last.ret
            total_shots == hits + misses
        IN  /\ r.den > 0
            /\ total_shots = 0 => r.num = 0
            /\ total_shots > 0 => r.num * total_shots = hits * 100 * r.den
            /\ (hits = 3 /\ misses = 1) => r.num = 75 * r.den
            /\ 0 <= r.num
            /\ r.num <= 100 * r.den
            /\ Mgr = PreM
            /\ now = PreNow

\* C9 witness: get_accuracy was called with 3 hits and 1 miss and
\* returned 75.
C9_Witness ==
    /\ last.op = "get_accuracy"
    /\ hits = 3
    /\ misses = 1
    /\ last.ret.num = 75 * last.ret.den

\* C10: reset_stats sets hits, misses and total_spawned to 0; the list of
\* targets with every target's fields, last_spawn_time and the clock are as
\* before.
C10_ResetStats ==
    last.op = "reset_stats" =>
        /\ hits = 0
        /\ misses = 0
        /\ total_spawned = 0
        /\ targets = PreM.targets
        /\ last_spawn_time = PreM.last_spawn_time
        /\ now = PreNow

\* C10 witness: reset_stats was called with hits and total_spawned above 0
\* while the list held a live target and a hit one.
C10_Witness ==
    /\ last.op = "reset_stats"
    /\ PreM.hits > 0
    /\ PreM.total_spawned > 1
    /\ Len(targets) >= 2
    /\ \E i \in 1 .. Len(targets) : targets[i].is_active
    /\ \E i \in 1 .. Len(targets) : targets[i].is_hit
    /\ total_spawned = 0

\* C11: the camera's pitch is within [MIN_PITCH, MAX_PITCH] after
\* construction with any pitch and after every rotate and set_rotation.
C11_PitchClamped ==
    /\ MIN_PITCH <= camera.pitch
    /\ camera.pitch <= MAX_PITCH

\* C11 witness: rotate was called with a delta that takes the pitch more
\* than 400 degrees below the range, and the pitch is MIN_PITCH.
C11_Witness ==
    /\ last.op = "rotate"
    /\ last.pre.pitch + last.pitch_arg < MIN_PITCH - 400
    /\ camera.pitch = MIN_PITCH

\* C12: a hit target is never active; check_shot leaves a target that is
\* already hit as it is (it is not hit again and not made active) and adds
\* to hits exactly the number of targets it newly marks hit; update removes
\* every hit target from the list, leaves hits alone, and adds to misses at
\* most the number of unhit targets it found, so a hit target adds nothing
\* to misses.
C12_HitIsTerminal ==
    /\ \A i \in 1 .. Len(targets) : targets[i].is_hit => ~targets[i].is_active
    /\ last.op = "check_shot" =>
           /\ Len(targets) = Len(PreM.targets)
           /\ \A i \in 1 .. Len(targets) :
                  PreM.targets[i].is_hit => targets[i] = PreM.targets[i]
           /\ hits - PreM.hits =
                  Cardinality({ i \in 1 .. Len(targets) :
                                  targets[i].is_hit /\ ~PreM.targets[i].is_hit })
           /\ misses = PreM.misses
    /\ last.op = "update" =>
           /\ \A i \in 1 .. Len(targets) : ~targets[i].is_hit
           /\ hits = PreM.hits
           /\ misses - PreM.misses <=
                  Cardinality({ i \in 1 .. Len(PreM.targets) :
                                  ~PreM.targets[i].is_hit })
           /\ misses >= PreM.misses

\* C12 witness: update removed a hit target whose lifetime was also over;
\* the list held no other target, and hits and misses stayed as they were.
C12_Witness ==
    /\ last.op = "update"
    /\ Len(PreM.targets) = 1
    /\ PreM.targets[1].is_hit
    /\ PreNow - PreM.targets[1].spawn_time >= PreM.targets[1].lifetime
    /\ PreM.hits = 1
    /\ hits = 1
    /\ misses = PreM.misses
    /\ PreM.targets[1] \notin Range(targets)

\* C13: when check_hit would report a hit for several targets of the list,
\* check_shot deactivates the first of them in list order and no other:
\* every other target is as it was, and hits grows by one.  The list is in
\* spawn order.
C13_FirstInListWins ==
    /\ \A i, j \in 1 .. Len(targets) :
           i < j => targets[i].spawn_time < targets[j].spawn_time
    /\ (last.op = "check_shot"
          /\ Cardinality(HitSet(PreM.targets, last.ray_origin,
                                last.ray_direction)) >= 2) =>
           LET i == Least(HitSet(PreM.targets, last.ray_origin,
                                 last.ray_direction))
           IN  /\ last.ret = TRUE
               /\ targets[i].is_hit
               /\ ~targets[i].is_active
               /\ \A j \in 1 .. Len(targets) :
                      j # i => targets[j] = PreM.targets[j]
               /\ hits = PreM.hits + 1

\* C13 witness: the ray from <<0,20,0>> down -Z passed through two live
\* targets, the farther one first in the list; the farther one was hit and
\* the nearer one is still active.
C13_Witness ==
    /\ last.op = "check_shot"
    /\ last.ray_origin = <<0, 20, 0>>
    /\ last.ray_direction = <<0, 0, -1>>
    /\ Len(targets) = 2
    /\ HitSet(PreM.targets, last.ray_origin, last.ray_direction) = {1, 2}
    /\ targets[1].position = <<0, 20, -100>>
    /\ targets[2].position = <<0, 20, -60>>
    /\ targets[1].is_hit
    /\ targets[2].is_active
    /\ ~targets[2].is_hit

\* the targets of ts that an update at clock reading clock keeps: the
\* active ones whose lifetime is not over
Kept(ts, clock) ==
    SelectSeq(ts, LAMBDA t : t.is_active /\ clock - t.spawn_time < t.lifetime)

\* C14: update spawns exactly when, the expired and hit targets of that
\* call removed, fewer than max_targets are left and spawn_interval has
\* elapsed since last_spawn_time.  A spawn appends one target, adds one to
\* total_spawned and sets last_spawn_time to the clock; otherwise both are
\* unchanged.  Any two targets of the list were spawned at least
\* spawn_interval apart.
C14_SpawnCondition ==
    /\ \A i, j \in 1 .. Len(targets) :
           i < j => targets[j].spawn_time - targets[i].spawn_time >= spawn_interval
    /\ \A i \in 1 .. Len(targets) : targets[i].spawn_time <= last_spawn_time
    /\ last.op = "update" =>
           LET kept == Kept(PreM.targets, PreNow)
           IN  IF Len(kept) < max_targets
                  /\ PreNow - PreM.last_spawn_time >= spawn_interval
               THEN /\ total_spawned = PreM.total_spawned + 1
                    /\ last_spawn_time = PreNow
                    /\ Len(targets) = Len(kept) + 1
                    /\ SubSeq(targets, 1, Len(kept)) = kept
                    /\ targets[Len(targets)].spawn_time = PreNow
                    /\ targets[Len(targets)].is_active
                    /\ PreNow - PreM.last_spawn_time >= spawn_interval
               ELSE /\ total_spawned = PreM.total_spawned
                    /\ last_spawn_time = PreM.last_spawn_time
                    /\ targets = kept

\* C14 witness: update found max_targets targets in the list, removed one
\* of them and spawned a new one in the same call.
C14_Witness ==
    /\ last.op = "update"
    /\ Len(PreM.targets) = max_targets
    /\ Len(Kept(PreM.targets, PreNow)) = max_targets - 1
    /\ total_spawned = PreM.total_spawned + 1
    /\ Len(targets) = max_targets
    /\ last_spawn_time = now

\* C15: a shot never marks as hit a target whose lifetime is already over
\* (clock - spawn_time >= lifetime) but which update has not ticked yet,
\* and hits does not grow for it.
C15_NoHitAfterLifetime ==
    last.op = "check_shot" =>
        \A i \in 1 .. Len(targets) :
            (/\ PreM.targets[i].is_active
             /\ PreNow - PreM.targets[i].spawn_time >= PreM.targets[i].lifetime)
            => (~targets[i].is_hit /\ targets[i] = PreM.targets[i])

\* a target spawned at clock reading T is in the list
InList(T) == \E i \in 1 .. Len(targets) : targets[i].spawn_time = T

\* C16: every update leaves in the list only active targets whose lifetime
\* is not over, so a target is gone by the first update at or after
\* spawn_time + lifetime, or after it was hit; and with the clock advancing
\* and update called again and again, every target spawned early enough for
\* its lifetime to end by MaxTime eventually leaves the list: from any
\* moment on, a moment comes at which it is not in the list.
C16_TargetsLeave ==
    /\ [](last.op = "update" =>
            \A i \in 1 .. Len(targets) :
                /\ targets[i].is_active
                /\ ~targets[i].is_hit
                /\ now - targets[i].spawn_time < targets[i].lifetime)
    /\ \A T \in Epoch .. (MaxTime - target_lifetime) : []<>(~InList(T))

\* C16 witness: update found a live, unhit target whose lifetime was over
\* and a target still alive; it removed the first and kept the second.
C16_Witness ==
    /\ last.op = "update"
    /\ DueSet(PreM.targets, PreNow) # {}
    /\ \A i \in DueSet(PreM.targets, PreNow) :
           ~InList(PreM.targets[i].spawn_time)
    /\ \E i \in 1 .. Len(PreM.targets) : InList(PreM.targets[i].spawn_time)

====
